---- MODULE Spec2Model ----
(***************************************************************************)
(* A model of vulcanai2: the BaseNetwork training harness                  *)
(* (models/basenetwork.py) and the layer units (models/layers.py).         *)
(*                                                                         *)
(* Spec        the harness: fit / train_epoch / validate and               *)
(*             get_conv_output_size, driven by a user who calls them       *)
(*             while the network is idle.                                  *)
(* SpecDevice  cuda() / cpu() calls on one network and the placement of    *)
(*             the batches of train_epoch and validate.                    *)
(* SpecSave    save_model / load_model and the pickled file.               *)
(* SpecOptim   the parameter objects held by the optimizer that fit builds, *)
(*             across forward passes, optimizer steps and unpickling.      *)
(* SpecUnit    one layer unit: the constructors of ConvUnit, DenseUnit,    *)
(*             FlattenUnit and InputUnit and their forward calls.          *)
(***************************************************************************)
EXTENDS Integers, Sequences, FiniteSets, TLC

(***************************************************************************)
(* Bounds of the model.                                                    *)
(***************************************************************************)
MaxBatches == 2      \* len(train_loader) ranges over 1..MaxBatches
MaxValBatches == 1   \* len(val_loader) ranges over 1..MaxValBatches
MaxEpochs == 3       \* the epochs argument of fit ranges over 0..MaxEpochs
MaxInterv == 1       \* the valid_interv argument: None (0) or 1..MaxInterv
MaxFits == 2         \* fit calls on the one network
MaxUserValidates == 1 \* validate() calls made directly by the user
MaxGpus == 2         \* the machine has 0..MaxGpus GPUs
MaxDevCalls == 4     \* cuda()/cpu() calls on the one network

Absent == -1        \* an attribute the object does not have (ids, counts >= 0)

VARIABLES
    \* ---- BaseNetwork attributes
    optim_spec,      \* self._optim_spec: "named" | "unnamed"
    criter_spec,     \* self._criter_spec: "None" | "named" | "unnamed"
    optim,           \* self.optim: Absent or the identity of an optimizer
    criterion,       \* self._modules['criterion']: Absent or an identity
    metrics,         \* self.metrics: Absent or [id, mat]
    epoch,           \* self.epoch
    itr,             \* self._itr
    valid_interv,    \* self.valid_interv
    training,        \* nn.Module.training
    train_loader,    \* len(self.train_loader), Absent before the first fit
    val_loader,      \* len(self.val_loader)
    epochs,          \* self.epochs
    \* ---- the tensor library
    grad_enabled,    \* torch's gradient recording mode
    next_id,         \* the next object identity to hand out
    \* ---- control
    pc,              \* the position of the running method, "idle" between calls
    batch_idx,       \* train_epoch's loop variable
    val_idx,         \* validate's loop variable
    saved_training,  \* validate's local `training`
    val_caller,      \* who called validate: "none" | "train_epoch" | "user"
    error,           \* the exception the last call raised, "none" if it returned
    \* ---- history (not read by the program)
    fit_count,       \* fit calls so far
    user_calls,      \* validate() calls by the user so far
    arg_valid_interv, \* the valid_interv argument of the running fit (0: None)
    prev_optim, prev_criterion, prev_epoch, \* attributes when fit was entered
    epochs_run,      \* the epochs train_epoch was called for, this fit
    visited,         \* the batch indices train_epoch visited, this epoch
    ops,             \* what was done for the current batch, in order
    steps,           \* optimizer steps taken, this epoch
    val_pass,        \* validation passes since the metrics were constructed
    val_prior,       \* self.training when validate was entered
    val_exit,        \* the last validate that returned: mode before and after
    reported,        \* the accumulator get_scores last read
    val_forward_grad, \* the grad modes of the forward passes of the last validate
    \* ---- device placement (SpecDevice)
    is_cuda,         \* self.is_cuda: "absent" before the first cuda()/cpu()
    param_device,    \* where the network's parameters live
    gpu_count,       \* torch.cuda.device_count() of the machine
    dev_returned,    \* the object the last cuda()/cpu() call returned
    dev_error,       \* the exception the last cuda()/cpu() call raised
    dev_log,         \* the cuda()/cpu() calls made so far, in order
    dev_forward,     \* the last forward pass: where the batch and the
                     \* parameters were
    \* ---- a layer unit (SpecUnit)
    unit,            \* the constructed ConvUnit or DenseUnit
    u_pc,            \* the position of the unit's constructor / forward
    u_trace,         \* the stages the running forward call applied, in order
    u_error,         \* the exception the constructor or forward raised
    u_calls,         \* forward calls so far
    u_layers,        \* the unit's registered sub-layers (self._modules)
    u_built,         \* u_layers when the constructor returned (history)
    u_next,          \* the next layer identity to hand out
    u_flat,          \* the nn.Linear held by FlattenUnit.flatten_layer
    u_outs,          \* FlattenUnit.forward calls so far: input, layer, output
    \* ---- save_model / load_model (SpecSave)
    s_net,           \* the network that is saved
    s_upstream_saved, \* the input network has a save_name
    s_dirs,          \* the directories that exist
    s_files,         \* the files that exist: name -> content
    s_loaded,        \* what the last load_model returned
    s_error,         \* the exception the last save_model/load_model raised
    s_last,          \* the last call: "none" | "save" | "load"
    s_saved,         \* the parameters at the last save_model call
    \* ---- the optimizer's parameter group (SpecOptim)
    o_net,           \* the network's parameter objects, by identity
    o_group,         \* self.optim.param_groups[0]['params'], by identity
    o_updated,       \* the parameter objects the last optimizer step updated
    o_next,          \* the next object identity to hand out
    o_pc,            \* "idle" between calls, "forward" / "step" inside a fit
    o_left,          \* the batches the running fit still has to process
    o_fits,          \* fit calls so far
    o_restored       \* the network is the result of pickle.loads

attrVars == <<optim_spec, criter_spec, optim, criterion, metrics, epoch, itr,
              valid_interv, training, train_loader, val_loader, epochs>>
ctlVars == <<pc, batch_idx, val_idx, saved_training, val_caller, error>>
histVars == <<fit_count, user_calls, arg_valid_interv, prev_optim,
              prev_criterion, prev_epoch, epochs_run, visited, ops, steps,
              val_pass, val_prior, val_exit, reported, val_forward_grad>>
harnessVars == <<attrVars, ctlVars, histVars, grad_enabled, next_id>>
devVars == <<is_cuda, param_device, gpu_count, dev_returned, dev_error,
             dev_log, dev_forward>>
unitVars == <<unit, u_pc, u_trace, u_error, u_calls, u_layers, u_built,
              u_next, u_flat, u_outs>>
saveVars == <<s_net, s_upstream_saved, s_dirs, s_files, s_loaded, s_error,
              s_last, s_saved>>
optVars == <<o_net, o_group, o_updated, o_next, o_pc, o_left, o_fits,
             o_restored>>

(***************************************************************************)
(* Pure helpers of the harness.                                            *)
(***************************************************************************)

\* A trainer that keeps the optimizer it already has.
InitOptimizerKeepOld(spec, old, id) ==
    CASE spec # "named" -> [err |-> "KeyError", obj |-> old]
      [] old # Absent -> [err |-> "none", obj |-> old]
      [] OTHER -> [err |-> "none", obj |-> id]

\* _init_optimizer: getattr(torch.optim, optim_spec["name"]) and a new
\* optimizer over self.parameters(); a spec without "name" raises KeyError.
InitOptimizer(spec, old, id) ==
    IF spec = "named" THEN [err |-> "none", obj |-> id]
    ELSE [err |-> "KeyError", obj |-> old]

\* A trainer that falls back to a default loss when no spec is given.
GetCriterionDefault(spec, old, id) ==
    CASE spec \in {"named", "None"} -> [err |-> "none", obj |-> id]
      [] OTHER -> [err |-> "KeyError", obj |-> old]

\* _get_criterion: criterion_spec["name"]; None is not subscriptable
\* (TypeError), a dict without "name" raises KeyError.
GetCriterion(spec, old, id) ==
    CASE spec = "named" -> [err |-> "none", obj |-> id]
      [] spec = "None" -> [err |-> "TypeError", obj |-> old]
      [] OTHER -> [err |-> "KeyError", obj |-> old]

\* fit, lines 202-203: `if valid_interv: self.valid_interv = valid_interv`.
\* The argument None is modelled as 0, which is falsy as well.
ArgValidInterv(N, old) == IF N # 0 THEN N ELSE old

\* _init_trainer, line 190: self.valid_interv = 2*len(self.train_loader).
TrainerValidInterv(fromArg, L) == 2 * L

\* _init_trainer, line 192: self.epoch = 0.
TrainerEpoch(old) == 0

\* _init_trainer, line 191: self.metrics = Metrics(self._num_classes).
NewMetrics(id) == [id |-> id, mat |-> <<>>]

\* Metrics.update: adds the batch's statistics to the accumulator. `tag` is
\* the validation pass the batch belongs to.
MetricsUpdate(m, tag) == [m EXCEPT !.mat = Append(@, tag)]

\* Metrics.get_scores: reads the accumulator.
MetricsGetScores(m) == m.mat

\* train_epoch, line 224.
GlobalItr(b, e, L) == b + e * L

\* train_epoch, line 228: the guard of the interior validate().
ValidateDue(i, interv) == i > 0 /\ i % interv = 0

\* The optimizer step taken before the backward pass.
NextStepSwapped(p) ==
    CASE p = "zero_grad" -> "forward"
      [] p = "forward" -> "loss"
      [] p = "loss" -> "step"
      [] p = "step" -> "backward"
      [] p = "backward" -> "acc"

\* The position after step `p` of a batch ("acc" is metrics.get_accuracy,
\* line 247, which ends the loop body).
NextStep(p) ==
    CASE p = "zero_grad" -> "forward"
      [] p = "forward" -> "loss"
      [] p = "loss" -> "backward"
      [] p = "backward" -> "step"
      [] p = "step" -> "acc"

\* validate without its lines 282-283: the mode is left as eval() set it.
RestoreTrainingNever(saved, cur) == cur

\* self.train() called whatever the mode was.
RestoreTrainingAlways(saved, cur) == TRUE

\* validate, lines 282-283: `if training: self.train()`.
RestoreTraining(saved, cur) == IF saved THEN TRUE ELSE cur

\* validate, line 267: the forward pass runs in whatever gradient mode the
\* caller is in; validate itself does not enter torch.no_grad().
ValidateGradMode(g) == g

(***************************************************************************)
(* The harness: initial state and actions.                                 *)
(***************************************************************************)

NoMetrics == [id |-> Absent, mat |-> <<>>]

\* BaseNetwork.__init__: the attributes it sets; optim, criterion, metrics,
\* epoch, valid_interv and the loaders are not set before fit.
HarnessFresh ==
    /\ optim = Absent /\ criterion = Absent /\ metrics = NoMetrics
    /\ epoch = Absent /\ itr = 0 /\ valid_interv = Absent
    /\ training = TRUE
    /\ train_loader = Absent /\ val_loader = Absent /\ epochs = Absent
    /\ grad_enabled = TRUE /\ next_id = 1
    /\ pc = "idle" /\ batch_idx = 0 /\ val_idx = 0
    /\ saved_training = FALSE /\ val_caller = "none" /\ error = "none"
    /\ fit_count = 0 /\ user_calls = 0 /\ arg_valid_interv = 0
    /\ prev_optim = Absent /\ prev_criterion = Absent /\ prev_epoch = Absent
    /\ epochs_run = <<>> /\ visited = <<>> /\ ops = <<>> /\ steps = 0
    /\ val_pass = 0 /\ val_prior = FALSE
    /\ val_exit = [done |-> FALSE, prior |-> FALSE, after |-> FALSE]
    /\ reported = [pass |-> 0, mat |-> <<>>]
    /\ val_forward_grad = {}

InitHarness ==
    /\ optim_spec \in {"named", "unnamed"}
    /\ criter_spec \in {"None", "named", "unnamed"}
    /\ HarnessFresh

\* The harness at rest, for the specifications that do not run it.
HarnessAtRest ==
    /\ optim_spec = "named" /\ criter_spec = "named"
    /\ HarnessFresh

\* The history of a fit is dropped when the fit returns.
ForgetFit ==
    /\ arg_valid_interv' = 0
    /\ prev_optim' = Absent /\ prev_criterion' = Absent
    /\ prev_epoch' = Absent
    /\ epochs_run' = <<>> /\ visited' = <<>> /\ ops' = <<>> /\ steps' = 0

\* train_epoch, line 215 and the loop header: self.train(), batch 0.
EnterTrainEpoch(e) ==
    /\ epoch' = e
    /\ training' = TRUE
    /\ batch_idx' = 0
    /\ epochs_run' = Append(epochs_run, e)
    /\ visited' = <<>> /\ ops' = <<>> /\ steps' = 0
    /\ pc' = "batch_top"

\* fit(train_loader, val_loader, epochs, valid_interv=N): lines 198-204, then
\* _init_trainer, then the first pass of the epoch loop up to train_epoch's
\* first batch. L and V are the lengths of the two loaders.
Fit(L, V, E, N) ==
    /\ pc = "idle" /\ fit_count < MaxFits
    /\ fit_count' = fit_count + 1
    /\ train_loader' = L /\ val_loader' = V /\ epochs' = E
    /\ arg_valid_interv' = N
    /\ prev_optim' = optim /\ prev_criterion' = criterion
    /\ prev_epoch' = epoch
    /\ LET fromArg == ArgValidInterv(N, valid_interv)
           o == InitOptimizer(optim_spec, optim, next_id)
           c == GetCriterion(criter_spec, criterion, next_id + 1)
       IN  \/ /\ o.err # "none"              \* line 187 raises
              /\ error' = o.err /\ pc' = "idle"
              /\ valid_interv' = fromArg
              /\ UNCHANGED <<optim, criterion, metrics, epoch, next_id,
                             training, batch_idx, epochs_run, visited, ops,
                             steps, val_pass>>
           \/ /\ o.err = "none" /\ c.err # "none"   \* line 188 raises
              /\ error' = c.err /\ pc' = "idle"
              /\ optim' = o.obj /\ next_id' = next_id + 1
              /\ valid_interv' = fromArg
              /\ UNCHANGED <<criterion, metrics, epoch, training, batch_idx,
                             epochs_run, visited, ops, steps, val_pass>>
           \/ /\ o.err = "none" /\ c.err = "none"
              /\ error' = "none"
              /\ optim' = o.obj /\ criterion' = c.obj
              /\ valid_interv' = TrainerValidInterv(fromArg, L)
              /\ metrics' = NewMetrics(next_id + 2)
              /\ next_id' = next_id + 3
              /\ val_pass' = 0
              /\ IF TrainerEpoch(epoch) < E      \* range(self.epoch, epochs)
                 THEN EnterTrainEpoch(TrainerEpoch(epoch))
                 ELSE /\ epoch' = TrainerEpoch(epoch) /\ pc' = "idle"
                      /\ epochs_run' = <<>> /\ visited' = <<>> /\ ops' = <<>>
                      /\ steps' = 0
                      /\ UNCHANGED <<training, batch_idx>>
    /\ val_prior' = FALSE
    /\ val_exit' = [done |-> FALSE, prior |-> FALSE, after |-> FALSE]
    /\ reported' = [pass |-> 0, mat |-> <<>>]
    /\ val_forward_grad' = {}
    /\ UNCHANGED <<optim_spec, criter_spec, itr, grad_enabled, val_idx,
                   saved_training, val_caller, user_calls>>
    /\ UNCHANGED <<devVars, unitVars, saveVars, optVars>>

\* train_epoch, lines 224-229: the global iteration and the interior
\* validate().
BatchTop ==
    /\ pc = "batch_top"
    /\ itr' = GlobalItr(batch_idx, epoch, train_loader)
    /\ visited' = Append(visited, batch_idx)
    /\ IF ValidateDue(itr', valid_interv)
       THEN /\ ops' = <<"validate">>
            /\ pc' = "val_enter" /\ val_caller' = "train_epoch"
       ELSE /\ ops' = <<>>
            /\ pc' = "assert" /\ UNCHANGED val_caller
    /\ UNCHANGED <<optim_spec, criter_spec, optim, criterion, metrics, epoch,
                   valid_interv, training, train_loader, val_loader, epochs,
                   grad_enabled, next_id, batch_idx, val_idx, saved_training,
                   error, fit_count, user_calls, arg_valid_interv, prev_optim,
                   prev_criterion, prev_epoch, epochs_run, steps, val_pass,
                   val_prior, val_exit, reported, val_forward_grad>>
    /\ UNCHANGED <<devVars, unitVars, saveVars, optVars>>

\* train_epoch, line 233: assert self.training.
AssertTraining ==
    /\ pc = "assert"
    /\ IF training
       THEN pc' = "zero_grad" /\ UNCHANGED error
       ELSE pc' = "idle" /\ error' = "AssertionError"
    /\ UNCHANGED <<attrVars, grad_enabled, next_id, batch_idx, val_idx,
                   saved_training, val_caller, histVars>>
    /\ UNCHANGED <<devVars, unitVars, saveVars, optVars>>

\* train_epoch, lines 239-245: one of zero_grad, forward, loss, backward,
\* optimizer step.
TrainStep ==
    /\ pc \in {"zero_grad", "forward", "loss", "backward", "step"}
    /\ ops' = Append(ops, pc)
    /\ pc' = NextStep(pc)
    /\ steps' = IF pc = "step" THEN steps + 1 ELSE steps
    /\ UNCHANGED <<attrVars, grad_enabled, next_id, batch_idx, val_idx,
                   saved_training, val_caller, error, fit_count, user_calls,
                   arg_valid_interv, prev_optim, prev_criterion, prev_epoch,
                   epochs_run, visited, val_pass, val_prior, val_exit,
                   reported, val_forward_grad>>
    /\ UNCHANGED <<devVars, unitVars, saveVars, optVars>>

\* train_epoch, line 247, and the loop's advance to the next batch.
BatchEnd ==
    /\ pc = "acc"
    /\ batch_idx' = batch_idx + 1
    /\ pc' = IF batch_idx + 1 < train_loader THEN "batch_top" ELSE "epoch_end"
    /\ UNCHANGED <<attrVars, grad_enabled, next_id, val_idx, saved_training,
                   val_caller, error, histVars>>
    /\ UNCHANGED <<devVars, unitVars, saveVars, optVars>>

\* train_epoch, line 248, then fit's loop (lines 208-210): the next epoch of
\* range(self.epoch, epochs), or the return of fit.
EpochEnd ==
    /\ pc = "epoch_end"
    /\ IF epoch + 1 < epochs
       THEN /\ EnterTrainEpoch(epoch + 1)
            /\ UNCHANGED <<arg_valid_interv, prev_optim, prev_criterion,
                           prev_epoch>>
       ELSE /\ pc' = "idle"
            /\ ForgetFit
            /\ UNCHANGED <<epoch, training, batch_idx>>
    /\ UNCHANGED <<optim_spec, criter_spec, optim, criterion, metrics, itr,
                   valid_interv, train_loader, val_loader, epochs,
                   grad_enabled, next_id, val_idx, saved_training, val_caller,
                   error, fit_count, user_calls, val_pass, val_prior, val_exit,
                   reported, val_forward_grad>>
    /\ UNCHANGED <<devVars, unitVars, saveVars, optVars>>

\* validate, lines 251-254: remember the mode, self.eval(); the loop header
\* reads self.val_loader, which a network that was never fitted lacks.
ValEnter ==
    /\ pc = "val_enter"
    /\ saved_training' = training /\ val_prior' = training
    /\ training' = FALSE
    /\ val_idx' = 0
    /\ val_exit' = [val_exit EXCEPT !.done = FALSE]
    /\ val_forward_grad' = {}
    /\ IF val_loader = Absent
       THEN /\ pc' = "idle" /\ error' = "AttributeError"
            /\ val_caller' = "none" /\ UNCHANGED val_pass
       ELSE /\ pc' = IF val_loader > 0 THEN "val_batch" ELSE "val_scores"
            /\ val_pass' = val_pass + 1
            /\ UNCHANGED <<error, val_caller>>
    /\ UNCHANGED <<optim_spec, criter_spec, optim, criterion, metrics, epoch,
                   itr, valid_interv, train_loader, val_loader, epochs,
                   grad_enabled, next_id, batch_idx, fit_count, user_calls,
                   arg_valid_interv, prev_optim, prev_criterion, prev_epoch,
                   epochs_run, visited, ops, steps, reported>>
    /\ UNCHANGED <<devVars, unitVars, saveVars, optVars>>

\* validate, lines 262-272: one validation batch: forward, loss,
\* metrics.update. self.criterion is missing when _init_trainer never
\* got to line 188.
ValBatch ==
    /\ pc = "val_batch"
    /\ val_forward_grad' =
           val_forward_grad \cup {ValidateGradMode(grad_enabled)}
    /\ IF criterion = Absent
       THEN /\ pc' = "idle" /\ error' = "AttributeError"
            /\ val_caller' = "none"
            /\ UNCHANGED <<metrics, val_idx>>
       ELSE /\ metrics' = MetricsUpdate(metrics, val_pass)
            /\ val_idx' = val_idx + 1
            /\ pc' = IF val_idx + 1 < val_loader THEN "val_batch"
                     ELSE "val_scores"
            /\ UNCHANGED <<error, val_caller>>
    /\ UNCHANGED <<optim_spec, criter_spec, optim, criterion, epoch, itr,
                   valid_interv, training, train_loader, val_loader, epochs,
                   grad_enabled, next_id, batch_idx, saved_training,
                   fit_count, user_calls, arg_valid_interv, prev_optim,
                   prev_criterion, prev_epoch, epochs_run, visited, ops,
                   steps, val_pass, val_prior, val_exit, reported>>
    /\ UNCHANGED <<devVars, unitVars, saveVars, optVars>>

\* validate, lines 274-283: get_scores, the report, and the mode restored.
ValScores ==
    /\ pc = "val_scores"
    /\ reported' = [pass |-> val_pass, mat |-> MetricsGetScores(metrics)]
    /\ training' = RestoreTraining(saved_training, training)
    /\ val_exit' = [done |-> TRUE, prior |-> val_prior, after |-> training']
    /\ pc' = IF val_caller = "train_epoch" THEN "assert" ELSE "idle"
    /\ val_caller' = "none"
    /\ UNCHANGED <<optim_spec, criter_spec, optim, criterion, metrics, epoch,
                   itr, valid_interv, train_loader, val_loader, epochs,
                   grad_enabled, next_id, batch_idx, val_idx, saved_training,
                   error, fit_count, user_calls, arg_valid_interv, prev_optim,
                   prev_criterion, prev_epoch, epochs_run, visited, ops,
                   steps, val_pass, val_prior, val_forward_grad>>
    /\ UNCHANGED <<devVars, unitVars, saveVars, optVars>>

\* The user calls nn.Module.eval() or nn.Module.train() between two calls.
UserSetMode(m) ==
    /\ pc = "idle"
    /\ training # m
    /\ training' = m
    /\ UNCHANGED user_calls
    /\ UNCHANGED <<optim_spec, criter_spec, optim, criterion, metrics, epoch,
                   itr, valid_interv, train_loader, val_loader, epochs,
                   grad_enabled, next_id, ctlVars, fit_count,
                   arg_valid_interv, prev_optim, prev_criterion, prev_epoch,
                   epochs_run, visited, ops, steps, val_pass, val_prior,
                   val_exit, reported, val_forward_grad>>
    /\ UNCHANGED <<devVars, unitVars, saveVars, optVars>>

\* The user calls validate() directly.
UserValidate ==
    /\ pc = "idle" /\ user_calls < MaxUserValidates
    /\ user_calls' = user_calls + 1
    /\ pc' = "val_enter" /\ val_caller' = "user" /\ error' = "none"
    /\ UNCHANGED <<attrVars, grad_enabled, next_id, batch_idx, val_idx,
                   saved_training, fit_count, arg_valid_interv, prev_optim,
                   prev_criterion, prev_epoch, epochs_run, visited, ops,
                   steps, val_pass, val_prior, val_exit, reported,
                   val_forward_grad>>
    /\ UNCHANGED <<devVars, unitVars, saveVars, optVars>>

\* get_conv_output_size, lines 118-120: enter torch.no_grad() and run the
\* convolutional part forward.
ConvOutputSizeEnter ==
    /\ pc = "idle"
    /\ UNCHANGED user_calls
    /\ grad_enabled' = FALSE
    /\ pc' = "conv_out"
    /\ UNCHANGED <<attrVars, next_id, batch_idx, val_idx, saved_training,
                   val_caller, error, fit_count, arg_valid_interv, prev_optim,
                   prev_criterion, prev_epoch, epochs_run, visited, ops,
                   steps, val_pass, val_prior, val_exit, reported,
                   val_forward_grad>>
    /\ UNCHANGED <<devVars, unitVars, saveVars, optVars>>

\* get_conv_output_size, line 121: return, leaving the no_grad block.
ConvOutputSizeExit ==
    /\ pc = "conv_out"
    /\ grad_enabled' = TRUE
    /\ pc' = "idle"
    /\ UNCHANGED <<attrVars, next_id, batch_idx, val_idx, saved_training,
                   val_caller, error, histVars>>
    /\ UNCHANGED <<devVars, unitVars, saveVars, optVars>>

NextHarness ==
    \/ \E L \in 1..MaxBatches, V \in 1..MaxValBatches,
          E \in 0..MaxEpochs, N \in 0..MaxInterv : Fit(L, V, E, N)
    \/ BatchTop
    \/ AssertTraining
    \/ TrainStep
    \/ BatchEnd
    \/ EpochEnd
    \/ ValEnter
    \/ ValBatch
    \/ ValScores
    \/ \E m \in BOOLEAN : UserSetMode(m)
    \/ UserValidate
    \/ ConvOutputSizeEnter
    \/ ConvOutputSizeExit

(***************************************************************************)
(* Device placement: BaseNetwork.cuda and BaseNetwork.cpu.                 *)
(***************************************************************************)
NetId == "net"       \* the identity of the network object

CpuDevice == [type |-> "cpu", index |-> 0]
CudaDevice(i) == [type |-> "cuda", index |-> i]

\* t.cuda(device_id): None (Absent) means the current device, which is 0.
CudaTarget(device_id) == IF device_id = Absent THEN 0 ELSE device_id

\* nn.Module._apply(fn) applies fn to the parameters in place and returns
\* the module it was called on.
ApplyReturn(self) == self

\* cuda, line 137: self.is_cuda = True.
CudaFlag == "True"

\* cpu that leaves the flag as it was.
CpuFlagStale == is_cuda

\* cpu, line 142: self.is_cuda = False.
CpuFlag == "False"

\* torch.cuda.is_available() on a machine with n GPUs.
CudaAvailable(n) == n > 0

\* train_epoch lines 235-236, validate lines 264-265: the batch is moved by
\* data.cuda() / targets.cuda(), i.e. to the current GPU, whenever a GPU is
\* available; self.is_cuda and the parameters' device are not consulted.
BatchDevice(available, flag, params) ==
    IF available THEN CudaDevice(CudaTarget(Absent)) ELSE CpuDevice

NoForward == [site |-> "none", data |-> CpuDevice, targets |-> CpuDevice,
              params |-> CpuDevice]

DeviceFresh ==
    /\ is_cuda = "absent"
    /\ param_device = CpuDevice
    /\ dev_returned = "none" /\ dev_error = "none" /\ dev_log = <<>>
    /\ dev_forward = NoForward

InitDevice == gpu_count \in 0..MaxGpus /\ DeviceFresh

DeviceAtRest == gpu_count = 0 /\ DeviceFresh

\* cuda(device_id), lines 137-138: the flag is set first, then every
\* parameter is moved; t.cuda() raises when the machine has no such GPU.
Cuda(device_id) ==
    /\ Len(dev_log) < MaxDevCalls
    /\ dev_log' = Append(dev_log, "cuda")
    /\ is_cuda' = CudaFlag
    /\ IF CudaTarget(device_id) < gpu_count
       THEN /\ param_device' = CudaDevice(CudaTarget(device_id))
            /\ dev_returned' = ApplyReturn(NetId)
            /\ dev_error' = "none"
       ELSE /\ dev_error' = "RuntimeError"
            /\ dev_returned' = "none"
            /\ UNCHANGED param_device
    /\ UNCHANGED <<gpu_count, dev_forward, harnessVars, unitVars, saveVars, optVars>>

\* cpu(), lines 142-143.
Cpu ==
    /\ Len(dev_log) < MaxDevCalls
    /\ dev_log' = Append(dev_log, "cpu")
    /\ is_cuda' = CpuFlag
    /\ param_device' = CpuDevice
    /\ dev_returned' = ApplyReturn(NetId)
    /\ dev_error' = "none"
    /\ UNCHANGED <<gpu_count, dev_forward, harnessVars, unitVars, saveVars, optVars>>

\* The forward pass of one batch at `site`: train_epoch lines 231-240 or
\* validate lines 262-267. The batch is loaded on the CPU, moved under
\* `if torch.cuda.is_available()`, and handed to self.forward.
BatchForward(site) ==
    LET dev == BatchDevice(CudaAvailable(gpu_count), is_cuda, param_device)
    IN  dev_forward' = [site |-> site, data |-> dev, targets |-> dev,
                        params |-> param_device]

TrainForward ==
    /\ BatchForward("train_epoch")
    /\ UNCHANGED <<is_cuda, param_device, gpu_count, dev_returned, dev_error,
                   dev_log, harnessVars, unitVars, saveVars, optVars>>

ValidateForward ==
    /\ BatchForward("validate")
    /\ UNCHANGED <<is_cuda, param_device, gpu_count, dev_returned, dev_error,
                   dev_log, harnessVars, unitVars, saveVars, optVars>>

NextDevice ==
    \/ \E d \in {Absent} \cup (0..(MaxGpus - 1)) : Cuda(d)
    \/ Cpu
    \/ TrainForward
    \/ ValidateForward

(***************************************************************************)
(* Layer units: constructor and forward.                                   *)
(***************************************************************************)
MaxConvDim == 4      \* conv_dim ranges over 1..MaxConvDim
MaxForwards == 2     \* forward calls on the one unit
MaxDim == 2          \* an input has 1..MaxDim channels of 1..MaxDim values
MaxWeight == 1       \* a parameter's value ranges over 0..MaxWeight

\* The values of the norm argument: None, a falsy value other than None
\* (False, 0, ''), 'batch', 'instance', any other value.
NormArgs == {"None", "falsy", "batch", "instance", "other"}
Truthy(v) == v \notin {"None", "falsy"}

NoUnit == [kind |-> "none", norm |-> "None", norm_layer |-> "absent",
           activation |-> "None", last |-> "None"]

\* ConvUnit.__init__, lines 31-72. self.batch_norm holds the layer class and
\* becomes a layer instance only under `if self.norm:`; self.pool is None
\* unless pool_size is given. With conv_dim outside 1..3 self.conv_layer is
\* None and line 55 calls it.
ConvUnitInit(conv_dim, norm, activation, pool_size) ==
    IF conv_dim \in {1, 2, 3}
    THEN [err |-> "none",
          obj |-> [kind |-> "conv", norm |-> norm,
                   norm_layer |-> IF Truthy(norm) THEN "instance" ELSE "class",
                   activation |-> activation,
                   last |-> IF pool_size # "None" THEN "module" ELSE "None"]]
    ELSE [err |-> "TypeError", obj |-> NoUnit]

\* DenseUnit.__init__, lines 92-114. self.bn exists only for norm 'batch' or
\* 'instance'; self.dropout exists only when dp is given.
DenseUnitInit(norm, activation, dp) ==
    [err |-> "none",
     obj |-> [kind |-> "dense", norm |-> norm,
              norm_layer |-> IF norm \in {"batch", "instance"}
                             THEN "instance" ELSE "absent",
              activation |-> activation,
              last |-> IF dp # "None" THEN "module" ELSE "None"]]

\* FlattenUnit.__init__, lines 8-10: only out_features is stored.
FlattenUnitInit ==
    [err |-> "none",
     obj |-> [kind |-> "flatten", norm |-> "None", norm_layer |-> "absent",
              activation |-> "None", last |-> "None"]]

\* InputUnit.__init__, lines 136-139.
InputUnitInit ==
    [err |-> "none",
     obj |-> [kind |-> "input", norm |-> "None", norm_layer |-> "absent",
              activation |-> "None", last |-> "None"]]

\* The attribute names under which a constructor registers sub-layers:
\* lines 55, 67, 72 (ConvUnit), 99, 106/108, 114 (DenseUnit), 139
\* (InputUnit); FlattenUnit.__init__ registers none. A layer class left in
\* self.batch_norm is not a module and is not registered.
BuiltNames(obj) ==
    CASE obj.kind = "conv" ->
             <<"conv">> \o (IF obj.norm_layer = "instance"
                            THEN <<"batch_norm">> ELSE <<>>)
                       \o (IF obj.last = "module" THEN <<"pool">> ELSE <<>>)
      [] obj.kind = "dense" ->
             <<"fc">> \o (IF obj.norm_layer = "instance"
                          THEN <<"bn">> ELSE <<>>)
                     \o (IF obj.last = "module" THEN <<"dropout">> ELSE <<>>)
      [] obj.kind = "input" -> <<"inp">>
      [] OTHER -> <<>>

\* The sub-layers a constructor leaves in self._modules: each name with the
\* identity of the layer object built for it, in construction order.
BuiltLayers(obj, first) ==
    {<<BuiltNames(obj)[i], first + i - 1>> : i \in 1..Len(BuiltNames(obj))}

\* nn.Module.__setattr__ with a module value: the entry of that name in
\* self._modules is created or replaced.
SetLayer(layers, name, id) ==
    {l \in layers : l[1] # name} \cup {<<name, id>>}

\* A DenseUnit that keeps the FlattenUnit it builds as a sub-layer.
DenseFlattenStored(layers, id) == SetLayer(layers, "flatten", id)

\* DenseUnit.forward, line 119: the FlattenUnit is a temporary, it is not
\* assigned to an attribute of the DenseUnit.
DenseFlatten(layers, id) == layers

\* Line 13: input.contiguous().view(input.size(0), -1).size(1), the number
\* of values of one sample.
FlattenedSize(shape) == shape[1] * shape[2]

NoLinear == [id |-> Absent, in_features |-> 0, w |-> 0]

\* Line 14: nn.Linear(input.size(1), self.out_features, bias=False); its
\* weight is drawn at random by the constructor.
NewLinear(in_features, id, w) ==
    [id |-> id, in_features |-> in_features, w |-> w]

\* Line 17: self.flatten_layer(input), a linear map without bias.
LinearApply(lin, x) == lin.w * x.val

\* The inputs of FlattenUnit.forward: the shape of one sample and the value
\* its entries hold.
FlattenInputs == [shape : (1..MaxDim) \X (1..MaxDim), val : {1, 2}]

\* forward with the activation applied before the normalization.
StageAfterSwapped(stage) ==
    CASE stage = "flatten" -> "transform"
      [] stage = "transform" -> "act"
      [] stage = "act" -> "norm"
      [] stage = "norm" -> "last"
      [] stage = "last" -> "returned"

\* ConvUnit.forward lines 75-86, DenseUnit.forward lines 117-132: the stage
\* whose guard is evaluated after `stage`.
StageAfter(stage) ==
    CASE stage = "flatten" -> "transform"
      [] stage = "transform" -> "norm"
      [] stage = "norm" -> "act"
      [] stage = "act" -> "last"
      [] stage = "last" -> "returned"

\* The name of a unit's last stage: pooling (ConvUnit), dropout (DenseUnit).
LastStage(u) == IF u.kind = "conv" THEN "pool" ELSE "dropout"

UnitFresh ==
    /\ unit = NoUnit /\ u_pc = "new" /\ u_trace = <<>>
    /\ u_error = "none" /\ u_calls = 0
    /\ u_layers = {} /\ u_built = {} /\ u_next = 1
    /\ u_flat = NoLinear /\ u_outs = <<>>

InitUnit == UnitFresh

UnitAtRest == UnitFresh

UnitBuilt(r) ==
    /\ u_error' = r.err
    /\ unit' = r.obj
    /\ u_pc' = IF r.err = "none" THEN "built" ELSE "raised"
    /\ u_layers' = BuiltLayers(r.obj, u_next)
    /\ u_built' = BuiltLayers(r.obj, u_next)
    /\ u_next' = u_next + Len(BuiltNames(r.obj))
    /\ UNCHANGED <<u_trace, u_calls, u_flat, u_outs, harnessVars, devVars,
                   saveVars, optVars>>

\* ConvUnit(conv_dim, ..., norm, activation, pool_size).
NewConvUnit(conv_dim, norm, activation, pool_size) ==
    /\ u_pc = "new"
    /\ UnitBuilt(ConvUnitInit(conv_dim, norm, activation, pool_size))

\* DenseUnit(..., norm, activation, dp).
NewDenseUnit(norm, activation, dp) ==
    /\ u_pc = "new"
    /\ UnitBuilt(DenseUnitInit(norm, activation, dp))

\* FlattenUnit(out_channels).
NewFlattenUnit ==
    /\ u_pc = "new"
    /\ UnitBuilt(FlattenUnitInit)

\* InputUnit(in_channels, out_channels).
NewInputUnit ==
    /\ u_pc = "new"
    /\ UnitBuilt(InputUnitInit)

\* unit(input): forward is entered. DenseUnit flattens an input of more
\* than two dimensions first (lines 117-119).
UnitForward(dim) ==
    /\ unit.kind \in {"conv", "dense"}
    /\ u_pc \in {"built", "returned"} \/ (u_pc = "raised" /\ unit # NoUnit)
    /\ u_calls < MaxForwards
    /\ u_calls' = u_calls + 1
    /\ u_trace' = <<>> /\ u_error' = "none"
    /\ u_pc' = IF unit.kind = "dense" /\ dim > 2 THEN "flatten"
               ELSE "transform"
    /\ UNCHANGED <<unit, u_layers, u_built, u_next, u_flat, u_outs,
                   harnessVars, devVars, saveVars, optVars>>

\* DenseUnit.forward, line 119: FlattenUnit(input.shape[1]).forward(input).
UnitFlatten ==
    /\ u_pc = "flatten"
    /\ u_trace' = Append(u_trace, "flatten")
    /\ u_pc' = StageAfter("flatten")
    /\ u_layers' = DenseFlatten(u_layers, u_next)
    /\ u_next' = u_next + 2     \* the FlattenUnit and the Linear it builds
    /\ UNCHANGED <<unit, u_error, u_calls, u_built, u_flat, u_outs,
                   harnessVars, devVars, saveVars, optVars>>

\* Lines 75 and 121: self.conv(input), self.fc(input).
UnitTransform ==
    /\ u_pc = "transform"
    /\ u_trace' = Append(u_trace, "transform")
    /\ u_pc' = StageAfter("transform")
    /\ UNCHANGED <<unit, u_error, u_calls, u_layers, u_built, u_next, u_flat,
                   u_outs, harnessVars, devVars, saveVars, optVars>>

\* Lines 77-78 and 123-124: `if self.norm is not None`. Calling the layer
\* class left in self.batch_norm with a tensor raises TypeError; a DenseUnit
\* without self.bn raises AttributeError.
UnitNorm ==
    /\ u_pc = "norm"
    /\ IF unit.norm # "None"
       THEN IF unit.norm_layer = "instance"
            THEN /\ u_trace' = Append(u_trace, "norm")
                 /\ u_pc' = StageAfter("norm")
                 /\ UNCHANGED u_error
            ELSE /\ u_error' = IF unit.norm_layer = "class" THEN "TypeError"
                               ELSE "AttributeError"
                 /\ u_pc' = "raised"
                 /\ UNCHANGED u_trace
       ELSE /\ u_pc' = StageAfter("norm")
            /\ UNCHANGED <<u_trace, u_error>>
    /\ UNCHANGED <<unit, u_calls, u_layers, u_built, u_next, u_flat, u_outs,
                   harnessVars, devVars, saveVars, optVars>>

\* Lines 80-81 and 126-127: `if self.activation is not None`.
UnitActivation ==
    /\ u_pc = "act"
    /\ u_trace' = IF unit.activation # "None" THEN Append(u_trace, "act")
                  ELSE u_trace
    /\ u_pc' = StageAfter("act")
    /\ UNCHANGED <<unit, u_error, u_calls, u_layers, u_built, u_next, u_flat,
                   u_outs, harnessVars, devVars, saveVars, optVars>>

\* Lines 83-84: `if self.pool is not None`; lines 129-130: `if self.dp is
\* not None`.
UnitLast ==
    /\ u_pc = "last"
    /\ u_trace' = IF unit.last # "None" THEN Append(u_trace, LastStage(unit))
                  ELSE u_trace
    /\ u_pc' = StageAfter("last")
    /\ UNCHANGED <<unit, u_error, u_calls, u_layers, u_built, u_next, u_flat,
                   u_outs, harnessVars, devVars, saveVars, optVars>>

\* FlattenUnit.forward, lines 13-18: a new nn.Linear is built and assigned
\* to self.flatten_layer on every call, then applied. Line 16 moves that
\* layer to the GPU in place (Module.cuda returns the module itself).
FlattenForward(x) ==
    /\ unit.kind = "flatten"
    /\ u_pc \in {"built", "returned"}
    /\ u_calls < MaxForwards
    /\ \E w \in 0..MaxWeight :
          LET lin == NewLinear(FlattenedSize(x.shape), u_next, w)
          IN  /\ u_flat' = lin
              /\ u_layers' = SetLayer(u_layers, "flatten_layer", lin.id)
              /\ u_outs' = Append(u_outs, [x |-> x, layer |-> lin.id,
                                           in_features |-> lin.in_features,
                                           out |-> LinearApply(lin, x)])
    /\ u_next' = u_next + 1
    /\ u_calls' = u_calls + 1
    /\ u_pc' = "returned"
    /\ UNCHANGED <<unit, u_trace, u_error, u_built, harnessVars, devVars,
                   saveVars, optVars>>

\* InputUnit.forward, lines 142-148: self.inp is applied, between two
\* transposes when the input has more than two dimensions.
InputForward(dim) ==
    /\ unit.kind = "input"
    /\ u_pc \in {"built", "returned"}
    /\ u_calls < MaxForwards
    /\ u_calls' = u_calls + 1
    /\ u_pc' = "returned"
    /\ UNCHANGED <<unit, u_trace, u_error, u_layers, u_built, u_next, u_flat,
                   u_outs, harnessVars, devVars, saveVars, optVars>>

NextUnit ==
    \/ \E d \in 1..MaxConvDim, n \in NormArgs, a \in {"None", "relu"},
          q \in {"None", "set"} : NewConvUnit(d, n, a, q)
    \/ \E n \in NormArgs, a \in {"None", "relu"}, q \in {"None", "set"} :
          NewDenseUnit(n, a, q)
    \/ NewFlattenUnit
    \/ NewInputUnit
    \/ \E dim \in {2, 4} : UnitForward(dim)
    \/ \E x \in FlattenInputs : FlattenForward(x)
    \/ \E dim \in {2, 4} : InputForward(dim)
    \/ UnitFlatten
    \/ UnitTransform
    \/ UnitNorm
    \/ UnitActivation
    \/ UnitLast

(***************************************************************************)
(* save_model / load_model.                                                *)
(***************************************************************************)
MaxParams == 2       \* a network has 1..MaxParams parameters

SavePaths == {"models", "out"}      \* "models" is save_model's default
FileNames == {<<d, n>> : d \in SavePaths, n \in {"net", "upstream"}}
NoFile == <<>>

PathCode(d) == CASE d = "absent" -> 0 [] d = "models" -> 1 [] d = "out" -> 2
CodePath(c) == CASE c = 0 -> "absent" [] c = 1 -> "models" [] c = 2 -> "out"
InputCode(v) == CASE v = "undefined" -> 0 [] v = "None" -> 1 [] v = "net" -> 2
CodeInput(c) == CASE c = 0 -> "undefined" [] c = 1 -> "None" [] c = 2 -> "net"
BoolCode(b) == IF b THEN 1 ELSE 0

\* pickle.dump(self, f): the object's state written out as a flat stream,
\* the parameters behind their count, the other attributes after them.
Pickle(net) ==
    <<Len(net.params)>> \o net.params \o
    <<BoolCode(net.fitted), InputCode(net.input_network),
      BoolCode(net.has_timestamp), PathCode(net.save_name)>>

\* pickle.load(f): the object rebuilt from the stream.
Unpickle(blob) ==
    LET n == blob[1]
    IN  [params |-> SubSeq(blob, 2, n + 1),
         fitted |-> blob[n + 2] = 1,
         input_network |-> CodeInput(blob[n + 3]),
         has_timestamp |-> blob[n + 4] = 1,
         save_name |-> CodePath(blob[n + 5])]

NoNet == [params |-> <<>>, fitted |-> FALSE, input_network |-> "undefined",
          has_timestamp |-> FALSE, save_name |-> "absent"]

\* save_metadata, lines 327-328, takes no argument besides self; line 307
\* calls it with file_path.
SaveMetadataCall == "TypeError"

ParamVectors ==
    UNION {[1..n -> 0..MaxWeight] : n \in 1..MaxParams}

SaveFresh ==
    /\ s_upstream_saved = FALSE
    /\ s_dirs = {}
    /\ s_files = [f \in FileNames |-> NoFile]
    /\ s_loaded = NoNet /\ s_error = "none"
    /\ s_last = [op |-> "none", file |-> <<"models", "net">>]
    /\ s_saved = <<>>

\* BaseNetwork.__init__ sets self._input_network; self.input_network and
\* self.timestamp, which save_model reads, are left to the subclass.
InitSave ==
    /\ s_net \in [params : ParamVectors, fitted : BOOLEAN,
                  input_network : {"undefined", "None", "net"},
                  has_timestamp : BOOLEAN, save_name : {"absent"}]
    /\ SaveFresh

SaveAtRest == s_net = NoNet /\ SaveFresh

\* save_model(save_path), lines 292-307.
SaveModel(save_path) ==
    LET file == <<save_path, "net">>
        named == [s_net EXCEPT !.save_name = save_path]
    IN
    /\ s_saved' = s_net.params
    /\ s_last' = [op |-> "save", file |-> file]
    /\ \/ /\ s_net.input_network = "undefined"     \* line 292
          /\ s_error' = "AttributeError"
          /\ UNCHANGED <<s_net, s_upstream_saved, s_dirs, s_files>>
       \/ /\ s_net.input_network = "net" /\ ~s_upstream_saved
          \* line 294: the input network's own save_model() writes its
          \* file under 'models' and raises at its line 307
          /\ s_upstream_saved' = TRUE
          /\ s_dirs' = s_dirs \cup {"models"}
          /\ s_files' = [s_files EXCEPT ![<<"models", "upstream">>] =
                             Pickle(NoNet)]
          /\ s_error' = SaveMetadataCall
          /\ UNCHANGED s_net
       \/ /\ \/ s_net.input_network = "None"
             \/ s_net.input_network = "net" /\ s_upstream_saved
          /\ s_dirs' = s_dirs \cup {save_path}     \* lines 296-298
          /\ IF ~s_net.has_timestamp               \* line 299
             THEN /\ s_error' = "AttributeError"
                  /\ UNCHANGED <<s_net, s_files>>
             ELSE /\ s_net' = named                \* line 301
                  /\ s_files' = [s_files EXCEPT ![file] = Pickle(named)]
                  /\ s_error' = SaveMetadataCall   \* line 307
          /\ UNCHANGED s_upstream_saved
    /\ UNCHANGED <<s_loaded, harnessVars, devVars, unitVars, optVars>>

\* load_model(load_path), lines 318-321.
LoadModel(file) ==
    /\ s_last' = [op |-> "load", file |-> file]
    /\ IF s_files[file] = NoFile
       THEN s_error' = "FileNotFoundError" /\ s_loaded' = NoNet
       ELSE s_error' = "none" /\ s_loaded' = Unpickle(s_files[file])
    /\ UNCHANGED <<s_net, s_upstream_saved, s_dirs, s_files, s_saved,
                   harnessVars, devVars, unitVars, optVars>>

\* An optimizer step between two calls changes one parameter.
SaveTrainStep(i) ==
    /\ i \in 1..Len(s_net.params)
    /\ ~s_net.fitted
    /\ s_net' = [s_net EXCEPT !.params[i] = (@ + 1) % (MaxWeight + 1),
                              !.fitted = TRUE]
    /\ UNCHANGED <<s_upstream_saved, s_dirs, s_files, s_loaded, s_error,
                   s_last, s_saved, harnessVars, devVars, unitVars, optVars>>

NextSave ==
    \/ \E d \in SavePaths : SaveModel(d)
    \/ \E f \in FileNames : LoadModel(f)
    \/ \E i \in 1..MaxParams : SaveTrainStep(i)

(***************************************************************************)
(* The optimizer's parameter group.                                        *)
(***************************************************************************)
\* network.parameters(): the parameters of the units built by
\* _create_network, in module order, then the weight of the flatten_layer
\* of the network's FlattenUnit if it has one and has built it.
Parameters(net) ==
    net.fixed \o (IF net.flat # Absent THEN <<net.flat>> ELSE <<>>)

\* _init_optimizer, line 179: OptimClass(self.parameters(), **optim_spec);
\* the group holds the parameter objects that exist at that moment.
OptimParams(net) == Parameters(net)

\* A forward pass of the network. Its FlattenUnit, if any, assigns a newly
\* built nn.Linear to flatten_layer (layers.py line 14); the other units
\* keep their parameters.
NetForward(net, id) ==
    IF net.has_flatten THEN [net EXCEPT !.flat = id] ELSE net

\* pickle.loads(pickle.dumps(x)): every object is rebuilt with a new
\* identity, and references to one object stay references to one object.
Rebuilt(id, base) == IF id = Absent THEN Absent ELSE id + base
RebuiltSeq(ids, base) == [i \in 1..Len(ids) |-> Rebuilt(ids[i], base)]

OptimFresh ==
    /\ o_group = <<>> /\ o_updated = {}
    /\ o_pc = "idle" /\ o_left = 0 /\ o_fits = 0 /\ o_restored = FALSE

\* A network of 1..MaxParams parameters built by its constructor, with or
\* without a FlattenUnit among its units; no forward pass was made yet.
InitOptim ==
    /\ \E n \in 1..MaxParams, f \in BOOLEAN :
          /\ o_net = [fixed |-> [i \in 1..n |-> i], has_flatten |-> f,
                      flat |-> Absent]
          /\ o_next = n + 1
    /\ OptimFresh

OptimAtRest ==
    /\ o_net = [fixed |-> <<>>, has_flatten |-> FALSE, flat |-> Absent]
    /\ o_next = 1
    /\ OptimFresh

\* fit(train_loader of L batches, ...), lines 195-208: _init_trainer builds
\* the optimizer over self.parameters() (line 187), then the batches run.
OptimFit(L) ==
    /\ o_pc = "idle"
    /\ o_fits < MaxFits
    /\ o_fits' = o_fits + 1
    /\ o_group' = OptimParams(o_net)
    /\ o_updated' = {}
    /\ o_left' = L
    /\ o_pc' = "forward"
    /\ UNCHANGED <<o_net, o_next, o_restored, harnessVars, devVars, unitVars,
                   saveVars>>

\* train_epoch, line 240: self.forward(data).
OptimForward ==
    /\ o_pc = "forward"
    /\ o_net' = NetForward(o_net, o_next)
    /\ o_next' = o_next + 1
    /\ o_pc' = "step"
    /\ UNCHANGED <<o_group, o_updated, o_left, o_fits, o_restored,
                   harnessVars, devVars, unitVars, saveVars>>

\* train_epoch, line 245: self.optim.step() updates the parameters of the
\* optimizer's group; after the last batch fit returns.
OptimStep ==
    /\ o_pc = "step"
    /\ o_updated' = {o_group[i] : i \in 1..Len(o_group)}
    /\ o_left' = o_left - 1
    /\ o_pc' = IF o_left > 1 THEN "forward" ELSE "idle"
    /\ UNCHANGED <<o_net, o_group, o_next, o_fits, o_restored, harnessVars,
                   devVars, unitVars, saveVars>>

\* net = pickle.loads(pickle.dumps(net)), made once, between calls.
OptimUnpickle ==
    /\ o_pc = "idle"
    /\ ~o_restored
    /\ o_restored' = TRUE
    /\ o_net' = [o_net EXCEPT !.fixed = RebuiltSeq(@, o_next),
                              !.flat = Rebuilt(@, o_next)]
    /\ o_group' = RebuiltSeq(o_group, o_next)
    /\ o_updated' = {}
    /\ o_next' = o_next + o_next
    /\ UNCHANGED <<o_pc, o_left, o_fits, harnessVars, devVars, unitVars,
                   saveVars>>

NextOptim ==
    \/ \E L \in 1..MaxBatches : OptimFit(L)
    \/ OptimForward
    \/ OptimStep
    \/ OptimUnpickle

(***************************************************************************)
(* Specifications.                                                         *)
(***************************************************************************)
vars == <<harnessVars, devVars, unitVars, saveVars, optVars>>

Init == InitHarness /\ DeviceAtRest /\ UnitAtRest /\ SaveAtRest
        /\ OptimAtRest

Next == NextHarness

Spec == Init /\ [][Next]_vars

InitDev == InitDevice /\ HarnessAtRest /\ UnitAtRest /\ SaveAtRest
        /\ OptimAtRest

SpecDevice == InitDev /\ [][NextDevice]_vars

InitUnits == InitUnit /\ HarnessAtRest /\ DeviceAtRest /\ SaveAtRest
             /\ OptimAtRest

SpecUnit == InitUnits /\ [][NextUnit]_vars

InitSaving == InitSave /\ HarnessAtRest /\ DeviceAtRest /\ UnitAtRest
              /\ OptimAtRest

SpecSave == InitSaving /\ [][NextSave]_vars

InitOptimizing == InitOptim /\ HarnessAtRest /\ DeviceAtRest /\ UnitAtRest
                  /\ SaveAtRest

SpecOptim == InitOptimizing /\ [][NextOptim]_vars

(***************************************************************************)
(* Claims about the harness.                                               *)
(***************************************************************************)
TrainPcs == {"assert", "zero_grad", "forward", "loss", "backward", "step",
             "acc"}

\* A fit is past _init_trainer and has not returned.
FitRunning == epochs_run # <<>>

\* validate() was invoked at the top of the current iteration.
ValidatedThisItr == ops # <<>> /\ ops[1] = "validate"

\* What train_epoch did for the current batch, the interior validate aside.
TrainOps == IF ValidatedThisItr THEN Tail(ops) ELSE ops

IsPrefix(s, t) == Len(s) <= Len(t) /\ s = SubSeq(t, 1, Len(s))

UpTo(n) == [i \in 1..n |-> i - 1]

\* C1: while a fit runs its batches the network holds one optimizer and one
\* criterion, both constructed by this fit call: neither is an instance the
\* network held when fit was entered.
C1_FitReplacesTrainer ==
    FitRunning =>
        /\ optim # Absent /\ criterion # Absent
        /\ optim # criterion
        /\ optim > prev_optim /\ optim > prev_criterion
        /\ criterion > prev_optim /\ criterion > prev_criterion

\* C1 witness: the first batch of a second fit, the first fit's optimizer and
\* criterion replaced.
C1_Witness ==
    /\ fit_count = 2 /\ pc = "batch_top" /\ epoch = 0 /\ batch_idx = 0
    /\ prev_optim # Absent /\ prev_criterion # Absent
    /\ optim # prev_optim /\ criterion # prev_criterion

\* C2 (as claimed): in a fit called with valid_interv = N >= 1, validate() is
\* invoked at the top of iteration itr exactly when itr > 0 and itr mod N = 0.
C2_ValidateEveryN ==
    (pc \in TrainPcs /\ arg_valid_interv >= 1) =>
        (ValidatedThisItr <=> (itr > 0 /\ itr % arg_valid_interv = 0))

\* The order the claim C3 gives for the steps of one batch.
BatchSteps == <<"zero_grad", "forward", "loss", "backward", "step">>

\* C3: train_epoch visits the batches 0, 1, ..., L-1 once each and in order;
\* for each batch it runs zero_grad, forward, loss, backward, optimizer step
\* in that order, once each; at the end of the epoch it has taken exactly L
\* optimizer steps.
C3_EpochStepsInOrder ==
    /\ pc \in TrainPcs =>
        /\ IsPrefix(TrainOps, BatchSteps)
        /\ (pc = "acc" => TrainOps = BatchSteps)
        /\ visited = UpTo(batch_idx + 1)
        /\ steps = batch_idx + (IF pc = "acc" THEN 1 ELSE 0)
    /\ pc = "epoch_end" =>
        /\ visited = UpTo(train_loader)
        /\ steps = train_loader
        /\ TrainOps = BatchSteps

\* C3 witness: the end of an epoch over two batches.
C3_Witness ==
    pc = "epoch_end" /\ train_loader = 2 /\ steps = 2 /\ visited = <<0, 1>>

\* C4: a validate() call that returns leaves the training flag as it was
\* immediately before the call, for either prior mode, and the flag is False
\* while the validation batches run.
C4_ValidateRestoresMode ==
    /\ val_exit.done => val_exit.after = val_exit.prior
    /\ pc \in {"val_batch", "val_scores"} => ~training

\* C4 witness: validate() returned to a network that was in evaluation mode,
\* and is in evaluation mode again.
C4_Witness ==
    val_exit.done /\ ~val_exit.prior /\ ~training /\ pc = "idle"

\* C5 (as claimed): a fit on a network whose previous fit left the epoch
\* counter at k runs train_epoch only for epochs from k on, starting at k.
C5_ResumesFromStoredEpoch ==
    (FitRunning /\ prev_epoch # Absent) =>
        /\ epochs_run[1] = prev_epoch
        /\ \A i \in 1..Len(epochs_run) : epochs_run[i] >= prev_epoch

\* C6 (as claimed): the scores a validate() call reports are computed from
\* the batches of that validation pass only.
C6_ScoresFromThisPassOnly ==
    reported.pass > 0 =>
        \A i \in 1..Len(reported.mat) : reported.mat[i] = reported.pass

\* C7 (as claimed): every forward pass of validate() runs with gradient
\* recording disabled.
C7_ValidateForwardNoGrad == \A g \in val_forward_grad : g = FALSE

(***************************************************************************)
(* Claims about save_model / load_model.                                   *)
(***************************************************************************)

\* C8 (as claimed): for any network, save_model followed by load_model on
\* the file save_model wrote completes, and the network it returns has the
\* parameters of the saved one, one for one and in order.
C8_SaveLoadRoundTrip ==
    /\ s_last.op = "save" => s_error = "none"
    /\ (s_last.op = "load" /\ s_last.file = <<s_net.save_name, "net">>) =>
           /\ s_error = "none"
           /\ s_loaded.params = s_saved

\* Python's None as the value of an attribute the object has.
None == -2

\* C13: after construction and before any fit call, a network has
\* epoch == 0, optim is None, criterion is None and no metrics attribute.
C13_FreshTrainerState ==
    fit_count = 0 =>
        /\ epoch = 0
        /\ optim = None
        /\ criterion = None
        /\ metrics = NoMetrics

\* The optimizer spec or the criterion spec has no 'name' entry.
BadSpec == optim_spec # "named" \/ criter_spec # "named"

\* C15: on a network whose optimizer spec or criterion spec has no 'name'
\* entry (the default criter_spec=None included), every fit call raises and
\* returns control with no train_epoch entered; no training batch is ever
\* processed and no optimizer step is ever taken.
C15_MissingNameRaisesBeforeTraining ==
    /\ [](BadSpec => /\ pc \notin TrainPcs \cup {"batch_top", "epoch_end"}
                     /\ epochs_run = <<>> /\ visited = <<>>
                     /\ ops = <<>> /\ steps = 0)
    /\ [][(BadSpec /\ fit_count' # fit_count) =>
              /\ error' \in {"KeyError", "TypeError"}
              /\ pc' = "idle"
              /\ metrics' = metrics /\ epoch' = epoch]_vars

\* C15 witness: fit on a network built with the default criter_spec=None
\* raised TypeError after the optimizer was constructed; nothing was trained.
C15_Witness ==
    /\ optim_spec = "named" /\ criter_spec = "None"
    /\ fit_count = 1 /\ pc = "idle" /\ error = "TypeError"
    /\ optim # Absent /\ criterion = Absent /\ steps = 0

\* C16: `assert self.training` (line 233) holds at every batch of every
\* epoch of a fit, the batch after an interior validate() included; fit
\* never raises AssertionError.
C16_AssertTrainingHolds ==
    /\ pc = "assert" => training
    /\ error # "AssertionError"

\* C16 witness: the assertion is reached right after an interior validate()
\* returned.
C16_Witness ==
    pc = "assert" /\ ValidatedThisItr /\ val_exit.done /\ training

\* The members of a sequence.
Range(q) == {q[i] : i \in 1..Len(q)}

\* C14: once fit has returned, the optimizer's first parameter group is
\* network.parameters(), the same objects in the same order, and every
\* optimizer step of a fit updates exactly the network's parameters; also
\* when the network was unpickled before the fit.
C14_OptimizerHoldsNetworkParams ==
    /\ (o_fits > 0 /\ o_pc = "idle") => o_group = Parameters(o_net)
    /\ o_updated # {} => o_updated = Range(Parameters(o_net))

(***************************************************************************)
(* Claims about device placement.                                          *)
(***************************************************************************)

\* C9: after any non-empty sequence of cuda()/cpu() calls the is_cuda flag
\* is True exactly when the last call was cuda(); a call that returns
\* returns the network it was called on, whose own parameters are then on
\* the device asked for.
C9_DeviceFlagAndSelf ==
    dev_log # <<>> =>
        LET last == dev_log[Len(dev_log)]
        IN  /\ is_cuda \in {"True", "False"}
            /\ is_cuda = "True" <=> last = "cuda"
            /\ dev_error = "none" =>
                   /\ dev_returned = NetId
                   /\ param_device.type = last

\* C9 witness: cuda() then cpu(), both returned: the flag is False again.
C9_Witness ==
    /\ Len(dev_log) >= 2
    /\ dev_log[Len(dev_log) - 1] = "cuda" /\ dev_log[Len(dev_log)] = "cpu"
    /\ is_cuda = "False" /\ dev_returned = NetId
    /\ param_device = CpuDevice

\* C18: at every forward pass in train_epoch and validate the batch data
\* and targets are on the device of the network's parameters, wherever the
\* network was last placed and whether or not a GPU is available.
C18_BatchOnNetworkDevice ==
    dev_forward.site # "none" =>
        /\ dev_forward.data = dev_forward.params
        /\ dev_forward.targets = dev_forward.params

(***************************************************************************)
(* Claims about the layer units.                                           *)
(***************************************************************************)
Rank(stage) ==
    CASE stage = "flatten" -> 0
      [] stage = "transform" -> 1
      [] stage = "norm" -> 2
      [] stage = "act" -> 3
      [] stage \in {"pool", "dropout"} -> 4

\* The enabled stages of a unit, in the order the claim C10 gives: the
\* transform, then each optional stage whose layer the constructor built.
EnabledStages(u) ==
    <<"transform">>
    \o (IF u.norm_layer = "instance" THEN <<"norm">> ELSE <<>>)
    \o (IF u.activation # "None" THEN <<"act">> ELSE <<>>)
    \o (IF u.last # "None" THEN <<LastStage(u)>> ELSE <<>>)

NotFlatten(stage) == stage # "flatten"

\* C10: the stages a forward call of a ConvUnit or DenseUnit applies are in
\* the order transform, normalization, activation, pooling/dropout, none of
\* them twice; and a forward call that returns has applied exactly the
\* unit's enabled stages.
C10_StagesInFixedOrder ==
    /\ \A i, j \in 1..Len(u_trace) :
           i < j => Rank(u_trace[i]) < Rank(u_trace[j])
    /\ u_pc = "returned" /\ unit.kind \in {"conv", "dense"} =>
           SelectSeq(u_trace, NotFlatten) = EnabledStages(unit)

\* C10 witness: a ConvUnit with every optional stage enabled has returned
\* from forward.
C10_Witness ==
    /\ u_pc = "returned" /\ unit.kind = "conv"
    /\ u_trace = <<"transform", "norm", "act", "pool">>

\* C11: FlattenUnit builds its affine map at the first forward call, with
\* in_features the flattened size of that input, and keeps that map for
\* later forward calls on an input of the same shape, so two forward calls
\* on the same input return the same output.
C11_FlattenKeepsFirstMap ==
    u_outs # <<>> =>
        LET first == u_outs[1]
        IN  /\ first.in_features = FlattenedSize(first.x.shape)
            /\ \A j \in 1..Len(u_outs) :
                   u_outs[j].x.shape = first.x.shape =>
                       u_outs[j].layer = first.layer
            /\ \A i, j \in 1..Len(u_outs) :
                   u_outs[i].x = u_outs[j].x => u_outs[i].out = u_outs[j].out

C17_BadConvDimRaisesValueError ==
    (u_pc = "raised" /\ unit = NoUnit) =>
        /\ u_error = "ValueError"
        /\ u_layers = {}

Applied(stage) == \E i \in 1..Len(u_trace) : u_trace[i] = stage

\* C19: for every value of norm, a forward call of a ConvUnit or DenseUnit
\* that is past its normalization stage has applied normalization exactly
\* when the constructor built a normalization layer instance, and forward
\* never raises from invoking a normalization layer that was not built.
C19_NormAppliedIffBuilt ==
    unit.kind \in {"conv", "dense"} =>
        /\ u_pc \in {"act", "last", "returned"} =>
               (Applied("norm") <=> unit.norm_layer = "instance")
        /\ u_pc # "raised"

====
